---- MODULE Spec2Model ----
(***************************************************************************)
(* Model of src/index.js (dbt-cloud-action): one invocation of main(),     *)
(* either in start mode (executeAction) or in cleanup mode (cleanupAction),*)
(* against a remote dbt Cloud run that changes on its own.                 *)
(*                                                                         *)
(* JavaScript runs each stretch of code between two awaits atomically, so  *)
(* an action is one such stretch: it starts when the awaited promise       *)
(* (HTTP call or sleep) settles and ends at the next await or at the end   *)
(* of main().  `events` records, in program order, every effect the code   *)
(* has on its collaborators (HTTP calls, sleeps, core and fs calls).       *)
(***************************************************************************)
EXTENDS Integers, Sequences, FiniteSets, TLC

VARIABLES
    STATE_dbtCloudRunID, \* process.env.STATE_dbtCloudRunID at start (NoId = undefined)
    input,               \* the action inputs read through core.getInput
    pc,                  \* the await main() is suspended on
    remote,              \* the run as the remote service holds it
    runId,               \* executeAction's runId / cleanupAction's run_id
    res,                 \* executeAction's / cleanupAction's res
    events,              \* effects so far, in order
    created,             \* ids of the runs this invocation's submit created on the remote
    lastCall             \* how the last HTTP call through dbt_cloud_api went

vars == <<STATE_dbtCloudRunID, input, pc, remote, runId, res, events, created, lastCall>>

----------------------------------------------------------------------------
(* Bounds *)

MaxPolls == 3      \* iterations of the poll loop explored
MaxSteps == 2      \* run steps the remote run can hold
MaxNetFailures == 2 \* consecutive transport failures the network inflicts on a call

RunIds == {1, 2}   \* identifiers the remote service hands out
NoId == 0          \* undefined identifier

----------------------------------------------------------------------------
(* The remote run: the service's side of the API, seen by the code only    *)
(* through the fields it reads (status, is_complete, is_error, git_sha,    *)
(* run_steps).                                                             *)

\* run_status: the status codes of a run
run_status == {1, 2, 3, 10, 20, 30}

Queued == 1
Starting == 2
Running == 3
Success == 10
Error == 20
Cancelled == 30

NoRun == [exists |-> FALSE]

\* the step list the remote builds up: step i has a name and a log text
StepOf(i) == [name |-> <<"name", i>>, logs |-> <<"logs", i>>]

StepsUpTo(n) == [i \in 1..n |-> StepOf(i)]

\* data of the GET /runs/{id}/ response body for the remote run as it is now
RunData(r) ==
    [id |-> r.id,
     status |-> r.status,
     is_complete |-> r.status \in {Success, Error, Cancelled},
     is_error |-> r.status = Error,
     git_sha |-> r.git_sha,
     run_steps |-> StepsUpTo(r.nsteps)]

\* the service moves the run along its lifecycle
RemoteNextStatus(s) ==
    CASE s = Queued -> {Starting, Cancelled}
      [] s = Starting -> {Running, Cancelled}
      [] s = Running -> {Success, Error, Cancelled}
      [] OTHER -> {}

----------------------------------------------------------------------------
(* Events *)

EvPostRunRequest(body) == [op |-> "post_run_request", body |-> body]
EvPostRun(ok, id) == [op |-> "post_run", ok |-> ok, id |-> id]
EvSaveState(id) == [op |-> "appendFileSync_GITHUB_STATE", id |-> id]
EvSleepInterval == [op |-> "sleep_interval"]
EvSleep5000 == [op |-> "sleep_5000"]
EvGetJobRun(where, id, r) == [op |-> "getJobRun", where |-> where, id |-> id, res |-> r]
EvSetFailed(msg) == [op |-> "setFailed", msg |-> msg]
EvThrow(what) == [op |-> "throw", what |-> what]
EvStepName(step) == [op |-> "info_step_name", text |-> step.name]
EvStepLogs(step) == [op |-> "info_step_logs", text |-> step.logs]
EvStepSep == [op |-> "info_step_separator"]
EvGetArtifact(doc, id, ok) == [op |-> "get_artifact", doc |-> doc, id |-> id, ok |-> ok]
EvWriteFile(doc) == [op |-> "writeFileSync", doc |-> doc]
EvSetOutput(name, value) == [op |-> "setOutput", name |-> name, value |-> value]
EvPostCancel(id, ok) == [op |-> "post_cancel", id |-> id, ok |-> ok]
EvCoreError == [op |-> "core_error"]

\* messages of core.setFailed
MsgYaml == "Could not interpret steps_override correctly"
MsgNone == "undefined"
MsgMain == "There has been a problem with running your dbt cloud job"

----------------------------------------------------------------------------
(* getJobRun *)

Undefined == [defined |-> FALSE]

\* What getJobRun can return: the body of the response, or undefined when
\* the GET fails (the catch logs and falls off the end of the function).
GetJobRunResults(id) ==
    {Undefined} \cup
    (IF remote.exists /\ remote.id = id
        THEN {[defined |-> TRUE, data |-> RunData(remote)]}
        ELSE {})

----------------------------------------------------------------------------
(* The retry wrapper and the client *)

\* retries: 3
Retries == 3

\* retryDelay: (retryCount) => retryCount * 1000
RetryDelay(retryCount) == retryCount * 1000

\* axiosRetry(axios, ...): the instance the retry interceptors are put on
RetryInstalledOn == {"axios"}

\* dbt_cloud_api = axios.create(...): an instance of its own, with its own
\* (empty) interceptor chain; every request of the program goes through it
ClientInstance == "dbt_cloud_api"

\* the retry interceptors installed on the client too
ClientRetries_Wrapped == Retries

\* how many times a failed request of the client is sent again
ClientRetries == IF ClientInstance \in RetryInstalledOn THEN Retries ELSE 0

NetFailures == 0..MaxNetFailures

Min(a, b) == IF a <= b THEN a ELSE b

\* One call through the client when the network fails the first f attempts
\* and answers the next: the attempts made, the delays between them and
\* whether the call resolves.
Request(f) ==
    LET n == Min(f, ClientRetries) + 1 IN
    [failures |-> f,
     attempts |-> n,
     delays |-> [k \in 1..(n - 1) |-> RetryDelay(k)],
     ok |-> f <= ClientRetries]

NoCall == [failures |-> 0, attempts |-> 0, delays |-> <<>>, ok |-> TRUE]

----------------------------------------------------------------------------
(* runJob: the request body *)

OPTIONAL_KEYS ==
    <<"git_sha", "git_branch", "schema_override", "dbt_version_override",
      "threads_override", "target_name_override", "generate_docs_override",
      "timeout_seconds_override", "steps_override", "github_pull_request_id">>

BOOL_OPTIONAL_KEYS == {"generate_docs_override"}
INTEGER_OPTIONAL_KEYS == {"threads_override", "timeout_seconds_override", "github_pull_request_id"}
YAML_PARSE_OPTIONAL_KEYS == {"steps_override"}

\* Input strings are sequences of characters; '' is the empty sequence.
Empty == <<>>

Str(v) == [t |-> "string", v |-> v]
Num(v) == [t |-> "number", v |-> v]
NaN == [t |-> "number", v |-> -1]
Bool(v) == [t |-> "boolean", v |-> v]
Null == [t |-> "null", v |-> 0]
List(v) == [t |-> "list", v |-> v]

IsNaN(x) == x.t = "number" /\ x.v < 0

Digit ==
    [c \in {"0", "1", "2", "3", "4", "5", "6", "7", "8", "9"} |->
        CASE c = "0" -> 0 [] c = "1" -> 1 [] c = "2" -> 2 [] c = "3" -> 3 [] c = "4" -> 4
          [] c = "5" -> 5 [] c = "6" -> 6 [] c = "7" -> 7 [] c = "8" -> 8 [] c = "9" -> 9]

RECURSIVE ParseDigits(_, _, _)
\* the value of the longest prefix of digits of s[i..], after acc; -1 if
\* there is no digit at all
ParseDigits(s, i, acc) ==
    IF i <= Len(s) /\ s[i] \in DOMAIN Digit
       THEN ParseDigits(s, i + 1, (IF acc < 0 THEN 0 ELSE acc) * 10 + Digit[s[i]])
       ELSE acc

\* parseInt of an unsigned input: the leading digits, NaN without any
parseInt(s) ==
    LET n == ParseDigits(s, 1, -1) IN IF n < 0 THEN NaN ELSE Num(n)

\* sample inputs of the boolean key
InTrue == <<"t", "r", "u", "e">>
InFalse == <<"f", "a", "l", "s", "e">>
InYes == <<"y", "e", "s">>

\* core.getBooleanInput: true/false, a TypeError for anything else
getBooleanInput(s) ==
    CASE s = InTrue -> [threw |-> "none", value |-> Bool(TRUE)]
      [] s = InFalse -> [threw |-> "none", value |-> Bool(FALSE)]
      [] OTHER -> [threw |-> "TypeError", value |-> Null]

\* sample inputs of the YAML key
YamlList == <<"[", "x", ",", "y", "]">>
YamlUnclosed == <<"[", "x">>
YamlNull == <<"~">>
YamlScalar == <<"a">>

\* YAML.parse on the sample inputs: a flow sequence, an unterminated flow
\* sequence (an error), the null scalar, and otherwise a plain string
YAMLparse(s) ==
    CASE s = YamlList -> [threw |-> "none", value |-> List(<<Str(<<"x">>), Str(<<"y">>)>>)]
      [] s = YamlUnclosed -> [threw |-> "YAMLParseError", value |-> Null]
      [] s = YamlNull -> [threw |-> "none", value |-> Null]
      [] OTHER -> [threw |-> "none", value |-> Str(s)]

\* the if / else if chain of the loop body: the value for one key
ConvertInput(key, raw) ==
    IF raw # Empty /\ key \in BOOL_OPTIONAL_KEYS
       THEN getBooleanInput(raw)
       ELSE IF raw # Empty /\ key \in INTEGER_OPTIONAL_KEYS
               THEN [threw |-> "none", value |-> parseInt(raw)]
               ELSE IF raw # Empty /\ key \in YAML_PARSE_OPTIONAL_KEYS
                       THEN LET y == YAMLparse(raw) IN
                            IF y.threw = "none" /\ y.value.t = "string"
                               THEN [threw |-> "none", value |-> List(<<y.value>>)]
                               ELSE y
                       ELSE [threw |-> "none", value |-> Str(raw)]

\* input !== ''
NotEmptyString(x) == ~(x.t = "string" /\ x.v = Empty)

\* if (input !== '') body[key] = input
KeepInput(x) == NotEmptyString(x)

\* const body = { cause }
Cause == [k \in {"cause"} |-> Str(<<"c">>)]

RECURSIVE RunJobBody(_, _, _)
\* for (const key of OPTIONAL_KEYS) ...: the body, or the exception that
\* ended the loop
RunJobBody(ov, i, body) ==
    IF i > Len(OPTIONAL_KEYS)
       THEN [threw |-> "none", body |-> body]
       ELSE LET key == OPTIONAL_KEYS[i]
                c == ConvertInput(key, ov[key])
            IN  IF c.threw # "none"
                   THEN [threw |-> c.threw, body |-> body]
                   ELSE RunJobBody(ov, i + 1,
                           IF KeepInput(c.value)
                              THEN [k \in DOMAIN body \cup {key} |->
                                       IF k = key THEN c.value ELSE body[k]]
                              ELSE body)

\* JSON.stringify of one value: NaN is written as null
StringifyValue(x) == IF IsNaN(x) THEN Null ELSE x

\* the JSON text axios sends for the body
Stringify(body) == [k \in DOMAIN body |-> StringifyValue(body[k])]

Keys == {OPTIONAL_KEYS[i] : i \in 1..Len(OPTIONAL_KEYS)}

NoOverrides == [k \in Keys |-> Empty]

\* the override inputs of the invocations explored: only steps_override set
StepsOverrides ==
    {[NoOverrides EXCEPT !["steps_override"] = y] : y \in {Empty, YamlList, YamlUnclosed}}

----------------------------------------------------------------------------
(* Init *)

Inputs ==
    [wait_for_job : BOOLEAN,
     failure_on_error : BOOLEAN,
     get_artifacts : BOOLEAN,
     overrides : StepsOverrides]

GitShas == {"sha"}

Init ==
    /\ STATE_dbtCloudRunID \in {NoId} \cup RunIds
    /\ input \in Inputs
    /\ pc = "main"
    /\ IF STATE_dbtCloudRunID = NoId
          THEN remote = NoRun
          ELSE \E s \in run_status, g \in GitShas :
                  remote = [exists |-> TRUE, id |-> STATE_dbtCloudRunID,
                            status |-> s, git_sha |-> g,
                            nsteps |-> IF s = Error THEN MaxSteps ELSE 0]
    /\ runId = NoId
    /\ res = Undefined
    /\ events = <<>>
    /\ created = {}
    /\ lastCall = NoCall

----------------------------------------------------------------------------
(* History read off `events` *)

RECURSIVE CountOp(_, _)
CountOp(evs, op) ==
    IF evs = <<>> THEN 0
    ELSE (IF Head(evs).op = op THEN 1 ELSE 0) + CountOp(Tail(evs), op)

Indices(op) == {i \in 1..Len(events) : events[i].op = op}

Has(op) == Indices(op) # {}

StartMode == STATE_dbtCloudRunID = NoId

----------------------------------------------------------------------------
(* main, start mode *)

\* a catch that fails the invocation only when failure_on_error is set
MainCatch_OnlyOnFlag(evs) ==
    /\ events' = IF input.failure_on_error THEN evs \o <<EvSetFailed(MsgMain)>> ELSE evs
    /\ pc' = "done"

\* main's catch around executeAction: always fail
MainCatch(evs) ==
    /\ events' = evs \o <<EvSetFailed(MsgMain)>>
    /\ pc' = "done"

\* outputs withheld once the invocation has been marked failed
ReturnOutputs_SkipWhenFailed(evs, r) ==
    /\ events' = IF CountOp(evs, "setFailed") > 0
                    THEN evs
                    ELSE evs \o <<EvSetOutput("git_sha", r.data.git_sha),
                                  EvSetOutput("run_id", runId)>>
    /\ pc' = "done"

\* executeAction returns its outputs and main publishes them
ReturnOutputs(evs, r) ==
    /\ events' = evs \o <<EvSetOutput("git_sha", r.data.git_sha),
                          EvSetOutput("run_id", runId)>>
    /\ pc' = "done"

\* executeAction from `if (core.getBooleanInput('get_artifacts'))` on
AfterLogs(evs, r) ==
    IF input.get_artifacts
       THEN /\ events' = evs
            /\ pc' = "get_run_results"
       ELSE ReturnOutputs(evs, r)

\* the failure mark left out
FailureOnError_Dropped(r) == <<>>

\* the failure mark for a remote job error
FailureOnError(r) ==
    IF r.data.is_error /\ input.failure_on_error
       THEN <<EvSetFailed(MsgNone)>>
       ELSE <<>>

\* executeAction from the end of the poll loop on
AfterLoop(evs, r) ==
    LET evs2 == evs \o FailureOnError(r) IN
    IF r.data.is_error
       THEN /\ events' = evs2
            /\ pc' = "sleep_5000"
       ELSE AfterLogs(evs2, r)

\* a main that starts a run whatever the environment holds
Main_AlwaysStart ==
    /\ pc = "main"
    /\ LET b == RunJobBody(input.overrides, 1, Cause) IN
       IF b.threw = "YAMLParseError"
          THEN MainCatch(<<EvSetFailed(MsgYaml), EvThrow(b.threw)>>)
          ELSE IF b.threw # "none"
                  THEN MainCatch(<<EvThrow(b.threw)>>)
                  ELSE /\ pc' = "post_run"
                       /\ events' = <<EvPostRunRequest(Stringify(b.body))>>
    /\ runId' = STATE_dbtCloudRunID
    /\ UNCHANGED <<STATE_dbtCloudRunID, input, remote, res, created, lastCall>>

\* a runJob whose catch marks the failure but does not throw again
Main_NoRethrow ==
    /\ pc = "main"
    /\ IF StartMode
          THEN LET b == RunJobBody(input.overrides, 1, Cause) IN
               IF b.threw = "YAMLParseError"
                  THEN /\ pc' = "post_run"
                       /\ events' = <<EvSetFailed(MsgYaml), EvPostRunRequest(Stringify(b.body))>>
                  ELSE IF b.threw # "none"
                          THEN MainCatch(<<EvThrow(b.threw)>>)
                          ELSE /\ pc' = "post_run"
                               /\ events' = <<EvPostRunRequest(Stringify(b.body))>>
          ELSE /\ pc' = "cleanup_getJobRun"
               /\ events' = events
    /\ runId' = STATE_dbtCloudRunID
    /\ UNCHANGED <<STATE_dbtCloudRunID, input, remote, res, created, lastCall>>

\* main() up to the first await: mode selection, and in start mode runJob
\* up to the POST it issues
Main ==
    /\ pc = "main"
    /\ IF StartMode
          THEN LET b == RunJobBody(input.overrides, 1, Cause) IN
               IF b.threw = "YAMLParseError"
                  THEN MainCatch(<<EvSetFailed(MsgYaml), EvThrow(b.threw)>>)
                  ELSE IF b.threw # "none"
                          THEN MainCatch(<<EvThrow(b.threw)>>)
                          ELSE /\ pc' = "post_run"
                               /\ events' = <<EvPostRunRequest(Stringify(b.body))>>
          ELSE /\ pc' = "cleanup_getJobRun"
               /\ events' = events
    /\ runId' = STATE_dbtCloudRunID
    /\ UNCHANGED <<STATE_dbtCloudRunID, input, remote, res, created, lastCall>>

\* the handle saved only when the invocation is going to wait
RunJobPost_SaveWhenWaiting ==
    /\ pc = "post_run"
    /\ \E f \in NetFailures, id \in RunIds, g \in GitShas, c \in SUBSET RunIds :
          /\ lastCall' = Request(f)
          /\ Cardinality(c) <= lastCall'.attempts
          /\ created' = c
          /\ IF lastCall'.ok
                THEN /\ id \in c
                     /\ remote' = [exists |-> TRUE, id |-> id, status |-> Queued,
                                   git_sha |-> g, nsteps |-> 0]
                     /\ runId' = id
                     /\ events' = events \o <<EvPostRun(TRUE, id)>>
                                     \o (IF input.wait_for_job THEN <<EvSaveState(id)>> ELSE <<>>)
                     /\ pc' = "sleep_interval"
                ELSE /\ MainCatch(events \o <<EvPostRun(FALSE, NoId), EvThrow("AxiosError")>>)
                     /\ UNCHANGED <<remote, runId>>
    /\ UNCHANGED <<STATE_dbtCloudRunID, input, res>>

\* the submit settles; on success the handle is saved and the loop entered
RunJobPost ==
    /\ pc = "post_run"
    /\ \E f \in NetFailures, id \in RunIds, g \in GitShas, c \in SUBSET RunIds :
          /\ lastCall' = Request(f)
          /\ Cardinality(c) <= lastCall'.attempts
          /\ created' = c
          /\ IF lastCall'.ok
                THEN /\ id \in c
                     /\ remote' = [exists |-> TRUE, id |-> id, status |-> Queued,
                                   git_sha |-> g, nsteps |-> 0]
                     /\ runId' = id
                     /\ events' = events \o <<EvPostRun(TRUE, id), EvSaveState(id)>>
                     /\ pc' = "sleep_interval"
                ELSE /\ MainCatch(events \o <<EvPostRun(FALSE, NoId), EvThrow("AxiosError")>>)
                     /\ UNCHANGED <<remote, runId>>
    /\ UNCHANGED <<STATE_dbtCloudRunID, input, res>>

\* await sleep(interval * 1000) at the top of the loop
LoopSleep ==
    /\ pc = "sleep_interval"
    /\ CountOp(events, "sleep_interval") < MaxPolls
    /\ events' = events \o <<EvSleepInterval>>
    /\ pc' = "loop_getJobRun"
    /\ UNCHANGED <<STATE_dbtCloudRunID, input, remote, runId, res, created, lastCall>>

\* a loop that reads a completion flag that is never set
LoopContinues_Forever(r) == TRUE

\* a loop that waits for completion whatever wait_for_job is
LoopContinues_IgnoresWait(r) ==
    IF ~r.defined
       THEN TRUE
       ELSE ~r.data.is_complete

\* a loop that is left on the first result, complete or not
LoopContinues_FirstResult(r) == ~r.defined

\* does the loop go round again after getJobRun returned r?
LoopContinues(r) ==
    IF ~r.defined
       THEN TRUE
       ELSE IF input.wait_for_job
               THEN ~r.data.is_complete
               ELSE FALSE

\* a getJobRun that lets the transport error through
LoopGetJobRun_Throws ==
    /\ pc = "loop_getJobRun"
    /\ \E f \in NetFailures, r \in GetJobRunResults(runId) :
          LET evs == events \o <<EvGetJobRun("loop", runId, r)>> IN
          /\ r.defined = Request(f).ok
          /\ lastCall' = Request(f)
          /\ res' = r
          /\ IF ~r.defined
                THEN MainCatch(evs \o <<EvThrow("AxiosError")>>)
                ELSE IF LoopContinues(r)
                        THEN /\ events' = evs
                             /\ pc' = "sleep_interval"
                        ELSE AfterLoop(evs, r)
    /\ UNCHANGED <<STATE_dbtCloudRunID, input, remote, runId, created>>

\* res = await getJobRun(...) inside the loop, and what follows it
LoopGetJobRun ==
    /\ pc = "loop_getJobRun"
    /\ \E f \in NetFailures, r \in GetJobRunResults(runId) :
          LET evs == events \o <<EvGetJobRun("loop", runId, r)>> IN
          /\ r.defined = Request(f).ok
          /\ lastCall' = Request(f)
          /\ res' = r
          /\ IF LoopContinues(r)
                THEN /\ events' = evs
                     /\ pc' = "sleep_interval"
                ELSE AfterLoop(evs, r)
    /\ UNCHANGED <<STATE_dbtCloudRunID, input, remote, runId, created>>

\* await sleep(5000) before the logs are loaded
Sleep5000 ==
    /\ pc = "sleep_5000"
    /\ events' = events \o <<EvSleep5000>>
    /\ pc' = "logs_getJobRun"
    /\ UNCHANGED <<STATE_dbtCloudRunID, input, remote, runId, res, created, lastCall>>

RECURSIVE PrintLogs(_)
\* for (let step of res.data.run_steps) { info name; info logs; info sep }
PrintLogs(steps) ==
    IF steps = <<>> THEN <<>>
    ELSE <<EvStepName(Head(steps)), EvStepLogs(Head(steps)), EvStepSep>>
            \o PrintLogs(Tail(steps))

\* the re-fetch settles: print the logs; reading res.data of undefined throws
LogsGetJobRun ==
    /\ pc = "logs_getJobRun"
    /\ \E f \in NetFailures, r \in GetJobRunResults(runId) :
          LET evs == events \o <<EvGetJobRun("logs", runId, r)>> IN
          /\ r.defined = Request(f).ok
          /\ lastCall' = Request(f)
          /\ res' = r
          /\ IF r.defined
                THEN AfterLogs(evs \o PrintLogs(r.data.run_steps), r)
                ELSE MainCatch(evs \o <<EvThrow("TypeError")>>)
    /\ UNCHANGED <<STATE_dbtCloudRunID, input, remote, runId, created>>

Docs == <<"run_results", "catalog", "manifest">>

\* each document written as soon as it has been fetched
GetArtifact_WriteEach(i) ==
    /\ pc = "get_" \o Docs[i]
    /\ \E f \in NetFailures : lastCall' = Request(f)
    /\ \/ /\ lastCall'.ok
          /\ LET evs == events \o <<EvGetArtifact(Docs[i], runId, TRUE), EvWriteFile(Docs[i])>> IN
             IF i < 3
                THEN /\ events' = evs
                     /\ pc' = "get_" \o Docs[i + 1]
                ELSE ReturnOutputs(evs, res)
       \/ /\ ~lastCall'.ok
          /\ MainCatch(events \o <<EvGetArtifact(Docs[i], runId, FALSE), EvThrow("AxiosError")>>)
    /\ UNCHANGED <<STATE_dbtCloudRunID, input, remote, runId, res, created>>

\* one of the three artifact GETs settles; after the third the files are written
GetArtifact(i) ==
    /\ pc = "get_" \o Docs[i]
    /\ \E f \in NetFailures : lastCall' = Request(f)
    /\ \/ /\ lastCall'.ok
          /\ LET evs == events \o <<EvGetArtifact(Docs[i], runId, TRUE)>> IN
             IF i < 3
                THEN /\ events' = evs
                     /\ pc' = "get_" \o Docs[i + 1]
                ELSE ReturnOutputs(evs \o <<EvWriteFile(Docs[1]), EvWriteFile(Docs[2]),
                                            EvWriteFile(Docs[3])>>, res)
       \/ /\ ~lastCall'.ok
          /\ MainCatch(events \o <<EvGetArtifact(Docs[i], runId, FALSE), EvThrow("AxiosError")>>)
    /\ UNCHANGED <<STATE_dbtCloudRunID, input, remote, runId, res, created>>

GetArtifacts == \E i \in 1..3 : GetArtifact(i)

----------------------------------------------------------------------------
(* main, cleanup mode *)

\* a cleanup catch that fails the invocation
CleanupCatch_Fails(evs) ==
    /\ events' = evs \o <<EvSetFailed(MsgMain)>>
    /\ pc' = "done"

\* main's catch around cleanupAction: report only
CleanupCatch(evs) ==
    /\ events' = evs \o <<EvCoreError>>
    /\ pc' = "done"

\* cancel whatever wait_for_job is
ShouldCancel_IgnoresWait(r) == ~r.data.is_complete

\* should cleanupAction cancel the run it fetched?
ShouldCancel(r) == (~r.data.is_complete) /\ input.wait_for_job

\* a cleanup that cancels when it could not learn the status
CleanupGetJobRun_CancelBlind ==
    /\ pc = "cleanup_getJobRun"
    /\ \E f \in NetFailures, r \in GetJobRunResults(runId) :
          LET evs == events \o <<EvGetJobRun("cleanup", runId, r)>> IN
          /\ r.defined = Request(f).ok
          /\ lastCall' = Request(f)
          /\ res' = r
          /\ IF IF r.defined THEN ShouldCancel(r) ELSE input.wait_for_job
                THEN /\ events' = evs
                     /\ pc' = "post_cancel"
                ELSE /\ events' = evs
                     /\ pc' = "done"
    /\ UNCHANGED <<STATE_dbtCloudRunID, input, remote, runId, created>>

\* the status fetch of cleanupAction settles
CleanupGetJobRun ==
    /\ pc = "cleanup_getJobRun"
    /\ \E f \in NetFailures, r \in GetJobRunResults(runId) :
          LET evs == events \o <<EvGetJobRun("cleanup", runId, r)>> IN
          /\ r.defined = Request(f).ok
          /\ lastCall' = Request(f)
          /\ res' = r
          /\ IF ~r.defined
                THEN CleanupCatch(evs \o <<EvThrow("TypeError")>>)
                ELSE IF ShouldCancel(r)
                        THEN /\ events' = evs
                             /\ pc' = "post_cancel"
                        ELSE /\ events' = evs
                             /\ pc' = "done"
    /\ UNCHANGED <<STATE_dbtCloudRunID, input, remote, runId, created>>

\* the cancel request settles
CleanupPostCancel ==
    /\ pc = "post_cancel"
    /\ \E f \in NetFailures : lastCall' = Request(f)
    /\ \/ /\ lastCall'.ok
          /\ events' = events \o <<EvPostCancel(runId, TRUE)>>
          /\ pc' = "done"
          /\ remote' = IF remote.status \in {Queued, Starting, Running}
                          THEN [remote EXCEPT !.status = Cancelled]
                          ELSE remote
       \/ /\ ~lastCall'.ok
          /\ CleanupCatch(events \o <<EvPostCancel(runId, FALSE), EvThrow("AxiosError")>>)
          /\ remote' = remote
    /\ UNCHANGED <<STATE_dbtCloudRunID, input, runId, res, created>>

----------------------------------------------------------------------------
(* The remote service *)

\* the run moves to its next status
RemoteAdvance ==
    /\ pc # "done"
    /\ remote.exists
    /\ \E s \in RemoteNextStatus(remote.status) :
          remote' = [remote EXCEPT !.status = s]
    /\ UNCHANGED <<STATE_dbtCloudRunID, input, pc, runId, res, events, created, lastCall>>

\* the step information of a failed run loads
RemoteLoadStep ==
    /\ pc # "done"
    /\ remote.exists
    /\ remote.status = Error
    /\ remote.nsteps < MaxSteps
    /\ remote' = [remote EXCEPT !.nsteps = @ + 1]
    /\ UNCHANGED <<STATE_dbtCloudRunID, input, pc, runId, res, events, created, lastCall>>

----------------------------------------------------------------------------

Next ==
    \/ Main
    \/ RunJobPost
    \/ LoopSleep
    \/ LoopGetJobRun
    \/ Sleep5000
    \/ LogsGetJobRun
    \/ GetArtifacts
    \/ CleanupGetJobRun
    \/ CleanupPostCancel
    \/ RemoteAdvance
    \/ RemoteLoadStep

Spec == Init /\ [][Next]_vars

----------------------------------------------------------------------------
(* Start mode with a poll loop of any length: the iterations that go round *)
(* again are not recorded in `events`, so that the loop can run for ever.  *)

\* await sleep(interval * 1000) at the top of the loop
LoopSleepLive ==
    /\ pc = "sleep_interval"
    /\ pc' = "loop_getJobRun"
    /\ UNCHANGED <<STATE_dbtCloudRunID, input, remote, runId, res, events, created, lastCall>>

\* res = await getJobRun(...) inside the loop, and what follows it
LoopGetJobRunLive ==
    /\ pc = "loop_getJobRun"
    /\ \E f \in NetFailures, r \in GetJobRunResults(runId) :
          /\ r.defined = Request(f).ok
          /\ lastCall' = Request(f)
          /\ res' = r
          /\ IF LoopContinues(r)
                THEN /\ events' = events
                     /\ pc' = "sleep_interval"
                ELSE AfterLoop(events \o <<EvGetJobRun("loop", runId, r)>>, r)
    /\ UNCHANGED <<STATE_dbtCloudRunID, input, remote, runId, created>>

InitLive == Init /\ StartMode

NextLive ==
    \/ Main
    \/ RunJobPost
    \/ LoopSleepLive
    \/ LoopGetJobRunLive
    \/ Sleep5000
    \/ LogsGetJobRun
    \/ GetArtifacts
    \/ RemoteAdvance
    \/ RemoteLoadStep

\* Every settled await resumes (the event loop runs its continuation), the
\* remote run keeps moving until it is complete, and a status fetch that
\* is made again and again succeeds again and again.
SpecLive ==
    /\ InitLive
    /\ [][NextLive]_vars
    /\ WF_vars(Main)
    /\ WF_vars(RunJobPost)
    /\ WF_vars(LoopSleepLive)
    /\ WF_vars(LoopGetJobRunLive)
    /\ WF_vars(Sleep5000)
    /\ WF_vars(LogsGetJobRun)
    /\ WF_vars(GetArtifacts)
    /\ WF_vars(RemoteAdvance)
    /\ SF_vars(LoopGetJobRunLive /\ res'.defined)

----------------------------------------------------------------------------
(* runJob alone, over all the override inputs *)

\* sample inputs of one override key
RawInputs(key) ==
    IF key \in BOOL_OPTIONAL_KEYS THEN {Empty, InTrue, InYes}
    ELSE IF key \in INTEGER_OPTIONAL_KEYS THEN {Empty, <<"1", "2">>, <<"a">>}
    ELSE IF key \in YAML_PARSE_OPTIONAL_KEYS
            THEN {Empty, YamlScalar, YamlList, YamlUnclosed, YamlNull}
            ELSE {Empty, <<"x">>}

InitBody ==
    /\ STATE_dbtCloudRunID = NoId
    /\ \E k1 \in RawInputs(OPTIONAL_KEYS[1]), k2 \in RawInputs(OPTIONAL_KEYS[2]),
          k3 \in RawInputs(OPTIONAL_KEYS[3]), k4 \in RawInputs(OPTIONAL_KEYS[4]),
          k5 \in RawInputs(OPTIONAL_KEYS[5]), k6 \in RawInputs(OPTIONAL_KEYS[6]),
          k7 \in RawInputs(OPTIONAL_KEYS[7]), k8 \in RawInputs(OPTIONAL_KEYS[8]),
          k9 \in RawInputs(OPTIONAL_KEYS[9]), k10 \in RawInputs(OPTIONAL_KEYS[10]) :
          LET in == <<k1, k2, k3, k4, k5, k6, k7, k8, k9, k10>> IN
          input = [wait_for_job |-> FALSE, failure_on_error |-> FALSE,
                   get_artifacts |-> FALSE,
                   overrides |-> [k \in Keys |->
                       in[CHOOSE i \in 1..Len(OPTIONAL_KEYS) : OPTIONAL_KEYS[i] = k]]]
    /\ pc = "main"
    /\ remote = NoRun
    /\ runId = NoId
    /\ res = Undefined
    /\ events = <<>>
    /\ created = {}
    /\ lastCall = NoCall

NextBody ==
    \/ Main
    \/ RunJobPost

SpecBody == InitBody /\ [][NextBody]_vars

TypeOK ==
    /\ pc \in {"main", "post_run", "sleep_interval", "loop_getJobRun", "sleep_5000",
               "logs_getJobRun", "get_run_results", "get_catalog", "get_manifest",
               "cleanup_getJobRun", "post_cancel", "done"}
    /\ runId \in {NoId} \cup RunIds
    /\ input \in Inputs

----------------------------------------------------------------------------
(* Reading the history *)

Fetches(where) ==
    {i \in 1..Len(events) : events[i].op = "getJobRun" /\ events[i].where = where}

SetFailedIdx(msg) ==
    {i \in 1..Len(events) : events[i].op = "setFailed" /\ events[i].msg = msg}

MaxOf(S) == CHOOSE x \in S : \A y \in S : y <= x

\* the submit succeeded
SubmitOk == \E i \in Indices("post_run") : events[i].ok

\* executeAction is past its poll loop
LoopExited == StartMode /\ SubmitOk /\ pc \notin {"sleep_interval", "loop_getJobRun"}

\* the result of the fetch the loop was left on
ExitRes == events[MaxOf(Fetches("loop"))].res

IsStepEvent(e) == e.op \in {"info_step_name", "info_step_logs", "info_step_separator"}

StepEventIdx == {i \in 1..Len(events) : IsStepEvent(events[i])}

\* the step lines emitted so far, in order
Emitted == SelectSeq(events, IsStepEvent)

----------------------------------------------------------------------------
(* C1 *)

----------------------------------------------------------------------------
(* C2 *)

\* the logs of the run were dumped: the re-fetch returned a run and the
\* emitted lines are its steps' names and logs, in the order of run_steps
LogsDumped ==
    \E i \in Fetches("logs") :
        /\ events[i].res.defined
        /\ Emitted = PrintLogs(events[i].res.data.run_steps)

\* C2: when the loop is left on a run in error and failure_on_error = true,
\* the invocation ends marked failed and with every step's name and logs
\* emitted in order, whatever the later remote calls return.
C2_FailedAndLogsDumped ==
    (LoopExited /\ pc = "done" /\ ExitRes.data.is_error /\ input.failure_on_error) =>
        (Has("setFailed") /\ LogsDumped)

----------------------------------------------------------------------------
(* C3 *)

\* C3 as stated: the failure mark for a remote job error comes after the
\* emission of the step logs, never before it.
C3_FailedAfterLogs ==
    \A i \in SetFailedIdx(MsgNone) : \A j \in StepEventIdx : j < i

\* C3 (amended): when the loop is left on a run in error and
\* failure_on_error = true, the invocation is marked failed at once, before
\* the 5 second wait, the re-fetch and the emission of any step log.
C3_FailedBeforeLogs ==
    /\ \A i \in SetFailedIdx(MsgNone) :
          \A j \in StepEventIdx \cup Indices("sleep_5000") \cup Fetches("logs") : i < j
    /\ (LoopExited /\ ExitRes.data.is_error /\ input.failure_on_error) =>
          /\ MaxOf(Fetches("loop")) < Len(events)
          /\ events[MaxOf(Fetches("loop")) + 1].op = "setFailed"
          /\ events[MaxOf(Fetches("loop")) + 1].msg = MsgNone

\* a run in error, marked failed, whose step logs have been emitted
C3_Witness ==
    /\ SetFailedIdx(MsgNone) # {}
    /\ LogsDumped
    /\ Len(Emitted) = 3 * MaxSteps

----------------------------------------------------------------------------
(* C4 *)

\* C4: the post-terminal re-fetch is issued once, and if it returns nothing
\* the invocation is not failed for it and goes on to the artifact fetch
\* (when asked for) and the outputs.
C4_RefetchSoftFailureTolerated ==
    /\ Cardinality(Fetches("logs")) <= 1
    /\ \A i \in Fetches("logs") :
          (~events[i].res.defined /\ pc = "done") =>
              IF input.get_artifacts
                 THEN Has("get_artifact")
                 ELSE Has("setOutput") /\ SetFailedIdx(MsgMain) = {}

----------------------------------------------------------------------------
(* C5 *)

\* C5: in cleanup mode a cancel is issued for the persisted run exactly
\* when the status fetch returned a run that is not complete and
\* wait_for_job = true, and then once; otherwise none is issued.
C5_CancelIffIncompleteAndWaiting ==
    ~StartMode =>
        /\ Cardinality(Indices("post_cancel")) <= 1
        /\ \A i \in Indices("post_cancel") : events[i].id = STATE_dbtCloudRunID
        /\ pc = "done" =>
              (Has("post_cancel") <=>
                  \E i \in Fetches("cleanup") :
                      /\ events[i].res.defined
                      /\ ~events[i].res.data.is_complete
                      /\ input.wait_for_job)

\* cleanup of a running run with wait_for_job = true has sent its cancel
C5_Witness ==
    /\ ~StartMode /\ pc = "done" /\ input.wait_for_job
    /\ Has("post_cancel")
    /\ res.defined /\ res.data.status = Running

----------------------------------------------------------------------------
(* C6 *)

\* C6: in cleanup mode the invocation is never marked failed, whatever
\* fails; the error is only reported.
C6_CleanupNeverFails ==
    ~StartMode =>
        /\ ~Has("setFailed")
        /\ \A i \in Indices("throw") :
              i < Len(events) /\ events[i + 1].op = "core_error" /\ pc = "done"

\* a cleanup whose cancel request failed
C6_Witness ==
    /\ ~StartMode /\ pc = "done"
    /\ \E i \in Indices("post_cancel") : ~events[i].ok
    /\ Has("core_error")

----------------------------------------------------------------------------
(* C7 *)

\* C7: the run handle is written at most once, right after the successful
\* submit and with the id of its response, hence before the first status
\* fetch and whatever wait_for_job is; it is written whenever the submit
\* succeeded and never when the submit failed or the inputs were rejected.
C7_HandleWrittenOnceAtSubmit ==
    /\ Cardinality(Indices("appendFileSync_GITHUB_STATE")) <= 1
    /\ \A i \in Indices("appendFileSync_GITHUB_STATE") :
          /\ i > 1
          /\ events[i - 1].op = "post_run"
          /\ events[i - 1].ok
          /\ events[i - 1].id = events[i].id
          /\ \A j \in Indices("getJobRun") : i < j
    /\ SubmitOk => Has("appendFileSync_GITHUB_STATE")
    /\ (StartMode /\ Indices("getJobRun") # {}) => Has("appendFileSync_GITHUB_STATE")
    /\ Has("throw") /\ ~SubmitOk => ~Has("appendFileSync_GITHUB_STATE")

\* wait_for_job = false, the handle written and a status fetch made after it
C7_Witness ==
    /\ StartMode /\ ~input.wait_for_job
    /\ Has("appendFileSync_GITHUB_STATE")
    /\ Fetches("loop") # {}

----------------------------------------------------------------------------
(* C8 *)

Incomplete(i) == events[i].res.defined /\ ~events[i].res.data.is_complete

Complete(i) == events[i].res.defined /\ events[i].res.data.is_complete

\* C8: with wait_for_job = true every fetch of the loop directly follows
\* one interval sleep, no fetch follows a complete snapshot, and the loop
\* is left on the first complete one: n snapshots that are not complete
\* followed by a complete one make n+1 fetches and n+1 sleeps.
C8_PollUntilComplete ==
    (StartMode /\ input.wait_for_job) =>
        /\ \A i \in Fetches("loop") : i > 1 /\ events[i - 1].op = "sleep_interval"
        /\ \A i \in Fetches("loop") :
              Complete(i) => (LoopExited /\ i = MaxOf(Fetches("loop")))
        /\ LoopExited =>
              /\ Fetches("loop") # {}
              /\ Complete(MaxOf(Fetches("loop")))
              /\ Cardinality(Fetches("loop")) =
                    Cardinality({i \in Fetches("loop") : ~Complete(i)}) + 1
              /\ Cardinality(Indices("sleep_interval")) = Cardinality(Fetches("loop"))

\* the loop left after the snapshots Queued, Running, Success: three fetches
C8_Witness ==
    /\ StartMode /\ input.wait_for_job /\ LoopExited
    /\ Cardinality(Fetches("loop")) = 3
    /\ \E i, j, k \in Fetches("loop") :
          /\ i < j /\ j < k
          /\ Incomplete(i) /\ events[i].res.data.status = Queued
          /\ Incomplete(j) /\ events[j].res.data.status = Running
          /\ Complete(k) /\ events[k].res.data.status = Success

----------------------------------------------------------------------------
(* C9 *)

\* C9: a status fetch of the loop that returns nothing leaves the system
\* polling: the invocation is not marked failed for it, nothing is thrown,
\* and the next thing it does is sleep another interval and fetch again.
C9_SoftFailureKeepsPolling ==
    \A i \in Fetches("loop") :
        ~events[i].res.defined =>
            /\ i = Len(events) => pc = "sleep_interval"
            /\ i < Len(events) => events[i + 1].op = "sleep_interval"
            /\ i + 1 = Len(events) => pc = "loop_getJobRun"
            /\ i + 1 < Len(events) =>
                  events[i + 2].op = "getJobRun" /\ events[i + 2].where = "loop"

\* two soft failures in a row, followed by a further sleep and fetch
C9_Witness ==
    \E i \in Fetches("loop") :
        /\ i + 4 <= Len(events)
        /\ ~events[i].res.defined
        /\ ~events[i + 2].res.defined
        /\ events[i + 4].op = "getJobRun"

----------------------------------------------------------------------------
(* C10 *)

\* C10: in start mode every exception ends the invocation with setFailed
\* and the integration-malfunction message, whatever failure_on_error is.
C10_ExceptionIsHardFailure ==
    StartMode =>
        \A i \in Indices("throw") :
            /\ i < Len(events)
            /\ events[i + 1].op = "setFailed"
            /\ events[i + 1].msg = MsgMain
            /\ pc = "done"

\* an artifact fetch failed with failure_on_error = false
C10_Witness ==
    /\ StartMode /\ ~input.failure_on_error /\ pc = "done"
    /\ \E i \in Indices("get_artifact") : ~events[i].ok
    /\ SetFailedIdx(MsgMain) # {}

----------------------------------------------------------------------------
(* C11 *)

\* C11: when the loop is left on a run in error the step logs are dumped
\* whatever failure_on_error is, and with failure_on_error = false the
\* invocation is not marked failed for the remote job error and, unless an
\* artifact fetch fails, publishes its outputs.
C11_LogsDumpedWhateverTheFlag ==
    (LoopExited /\ pc = "done" /\ ExitRes.data.is_error) =>
        /\ LogsDumped
        /\ ~input.failure_on_error =>
              /\ SetFailedIdx(MsgNone) = {}
              /\ (\A i \in Indices("get_artifact") : events[i].ok) => Has("setOutput")

----------------------------------------------------------------------------
(* C14 *)

\* C14: the mode is decided by the handle alone: without the handle no
\* cancel is ever issued; with it no run is submitted, no handle written,
\* no artifact fetched and no output set.
C14_ModesExclusive ==
    /\ StartMode => ~Has("post_cancel") /\ pc # "cleanup_getJobRun"
    /\ ~StartMode =>
          /\ ~Has("post_run")
          /\ ~Has("appendFileSync_GITHUB_STATE")
          /\ ~Has("get_artifact")
          /\ ~Has("setOutput")
          /\ pc \in {"main", "cleanup_getJobRun", "post_cancel", "done"}

\* a cleanup invocation that cancelled a queued run and ended
C14_Witness ==
    /\ ~StartMode /\ pc = "done"
    /\ \E i \in Indices("post_cancel") : events[i].ok
    /\ res.defined /\ res.data.status = Queued

----------------------------------------------------------------------------
(* C15 *)

ArtifactOk(doc) ==
    {i \in Indices("get_artifact") : events[i].doc = doc /\ events[i].ok}

\* C15: no artifact file is written before all three documents have been
\* fetched, and when one of the fetches fails the invocation fails hard
\* with no file written.
C15_FetchAllBeforeWriting ==
    /\ \A w \in Indices("writeFileSync") :
          \A k \in 1..3 : \E i \in ArtifactOk(Docs[k]) : i < w
    /\ (\E i \in Indices("get_artifact") : ~events[i].ok) =>
          /\ ~Has("writeFileSync")
          /\ SetFailedIdx(MsgMain) # {}
          /\ pc = "done"

\* the catalog fetch failed after the run results had been fetched
C15_Witness ==
    /\ pc = "done"
    /\ ArtifactOk("run_results") # {}
    /\ \E i \in Indices("get_artifact") : events[i].doc = "catalog" /\ ~events[i].ok

----------------------------------------------------------------------------
(* C16 *)

\* C16 as stated: in start mode the outputs are emitted exactly when no
\* exception occurred, and never when the invocation has been marked failed.
C16_NoOutputsWhenFailed ==
    (StartMode /\ pc = "done") =>
        /\ Has("setOutput") <=> ~Has("throw")
        /\ Has("setFailed") => ~Has("setOutput")

\* C16 (amended): the two outputs are emitted exactly when executeAction
\* returns without an exception, git_sha then run_id, as the last thing the
\* invocation does; this includes the invocation marked failed for a
\* remote job error.
C16_OutputsIffReturned ==
    StartMode =>
        /\ \A i \in Indices("setOutput") : pc = "done" /\ ~Has("throw")
        /\ (pc = "done" /\ ~Has("throw")) =>
              /\ Len(events) >= 2
              /\ events[Len(events) - 1].op = "setOutput"
              /\ events[Len(events) - 1].name = "git_sha"
              /\ events[Len(events)].op = "setOutput"
              /\ events[Len(events)].name = "run_id"
              /\ Cardinality(Indices("setOutput")) = 2

\* outputs published by an invocation marked failed for a remote job error
C16_Witness ==
    /\ StartMode /\ pc = "done"
    /\ SetFailedIdx(MsgNone) # {}
    /\ Cardinality(Indices("setOutput")) = 2

----------------------------------------------------------------------------
(* C20 *)

\* C20: in cleanup mode a status fetch that returns nothing is not
\* repeated and no cancel follows it, even with wait_for_job = true and
\* the run still incomplete on the remote.
C20_CleanupSoftFailureNoCancel ==
    ~StartMode =>
        /\ Cardinality(Fetches("cleanup")) <= 1
        /\ \A i \in Fetches("cleanup") :
              ~events[i].res.defined =>
                  /\ ~Has("post_cancel")
                  /\ pc = "done"

\* wait_for_job = true, the run still running, the fetch returned nothing
C20_Witness ==
    /\ ~StartMode /\ pc = "done" /\ input.wait_for_job
    /\ remote.status = Running
    /\ \E i \in Fetches("cleanup") : ~events[i].res.defined

----------------------------------------------------------------------------
(* C17 *)

\* the steps_override input is not valid YAML
StepsMalformed == YAMLparse(input.overrides["steps_override"]).threw # "none"

\* C17: with a malformed steps_override the invocation is marked failed
\* and ends before any request: no submit is sent (no run created, no
\* handle written) and no call is made or retried.
C17_MalformedStepsIsHardError ==
    (StartMode /\ StepsMalformed /\ pc # "main") =>
        /\ pc = "done"
        /\ SetFailedIdx(MsgYaml) # {}
        /\ SetFailedIdx(MsgMain) # {}
        /\ ~Has("post_run_request") /\ ~Has("post_run")
        /\ ~Has("appendFileSync_GITHUB_STATE")
        /\ created = {} /\ ~remote.exists
        /\ lastCall = NoCall

\* an invocation ended by a malformed steps_override
C17_Witness ==
    /\ StartMode /\ StepsMalformed /\ pc = "done"
    /\ Has("throw")

----------------------------------------------------------------------------
(* C18 *)

\* C18: the body sent holds the cause and exactly the override keys whose
\* input is not empty, and no key is sent as null or as an empty string.
C18_BodyHasExactlyPresentKeys ==
    \A i \in Indices("post_run_request") :
        /\ DOMAIN events[i].body =
              {"cause"} \cup {k \in Keys : input.overrides[k] # Empty}
        /\ \A k \in DOMAIN events[i].body :
              events[i].body[k].t # "null" /\ NotEmptyString(events[i].body[k])

----------------------------------------------------------------------------
(* C12 *)

\* the run identifiers the invocation has used with its collaborators
UsedIds ==
    {events[i].id : i \in {j \in 1..Len(events) :
        \/ events[j].op \in {"appendFileSync_GITHUB_STATE", "getJobRun",
                             "get_artifact", "post_cancel"}
        \/ events[j].op = "post_run" /\ events[j].ok}}
    \cup {events[i].value : i \in {j \in Indices("setOutput") : events[j].name = "run_id"}}

\* C12: an invocation creates at most one run on the remote, whatever the
\* transport does, and the handle, the status fetches, the artifact
\* fetches, the cancel and the run_id output all carry the id of that run
\* (in cleanup mode: of the run of the handle, and none is created).
C12_AtMostOneRun ==
    /\ Cardinality(created) <= 1
    /\ StartMode => UsedIds \subseteq created
    /\ ~StartMode => created = {} /\ UsedIds \subseteq {STATE_dbtCloudRunID}

\* a start invocation that fetched the artifacts of its run and ended
C12_Witness ==
    /\ StartMode /\ pc = "done"
    /\ created = {runId}
    /\ ArtifactOk("manifest") # {}
    /\ Has("setOutput")
    /\ Fetches("loop") # {}

----------------------------------------------------------------------------
(* C13 *)

\* C13: a call through dbt_cloud_api is sent again after a transport
\* failure, at most 3 times: when the network fails it twice and then
\* answers, it resolves on the third attempt, after delays of 1 s and 2 s;
\* when it fails more than 3 retries the call rejects.
C13_ClientCallsRetried ==
    /\ lastCall.attempts <= Retries + 1
    /\ lastCall.failures = 2 =>
          /\ lastCall.ok
          /\ lastCall.attempts = 3
          /\ lastCall.delays = <<1000, 2000>>
    /\ lastCall.failures > Retries => ~lastCall.ok

----------------------------------------------------------------------------
(* C19 *)

InLoop == pc \in {"sleep_interval", "loop_getJobRun"}

\* C19: with wait_for_job = true the loop is left only on a fetch that
\* returns a complete run, so it goes on as long as fetches return nothing
\* or the run is not complete; and when the run does become complete and
\* fetches do succeed, the invocation leaves the loop and ends.
C19_PollsUntilComplete ==
    /\ [][(input.wait_for_job /\ InLoop /\ ~InLoop') =>
             (res'.defined /\ res'.data.is_complete)]_vars
    /\ (input.wait_for_job /\ InLoop) ~> (pc = "done")

\* a waiting invocation that ended after the run was cancelled on the remote
C19_Witness ==
    /\ StartMode /\ input.wait_for_job /\ pc = "done"
    /\ LoopExited
    /\ ExitRes.data.status = Cancelled

====
